---- MODULE Spec2Model ----
(***************************************************************************)
(* Model of src/src/app.py: the season-list resolver                       *)
(*   invoke_get_nhl_seasons -> parse_nhl_seasons_response                  *)
(*                          -> parse_seasons_json                          *)
(* and the lambda_handler loop that fetches and uploads player bios.       *)
(*                                                                         *)
(* Text is a sequence of symbols.  A symbol is one character ("{", "1",    *)
(* " ", ...) or one word of letters kept whole ("statusCode", "null").     *)
(* The alphabet has no backslash, so a JSON string literal is the symbols  *)
(* up to the next quote.  Bytes are symbols too: an ASCII symbol stands    *)
(* for its own bytes, "xC3" "xA9" "xFF" are single non-ASCII bytes.        *)
(***************************************************************************)
EXTENDS Integers, Sequences, FiniteSets, TLC

VARIABLES pc, lambda_response, reads, parsed_lambda_output, seasons, exc,
          step, fetchLog, putLog, uploadErrors, results, response

vars == <<pc, lambda_response, reads, parsed_lambda_output, seasons, exc,
          step, fetchLog, putLog, uploadErrors, results, response>>

----------------------------------------------------------------------------
(* Python values *)

None == [t |-> "none"]
Bool(b) == [t |-> "bool", v |-> b]
Num(n) == [t |-> "num", v |-> n]
Str(s) == [t |-> "str", v |-> s]
Arr(a) == [t |-> "arr", v |-> a]
\* a dict is its items in insertion order, keys unique
Obj(items) == [t |-> "obj", v |-> items]
\* a botocore StreamingBody: the bytes it yields, or a stream whose read() raises
Stream(bytes, broken) == [t |-> "stream", v |-> bytes, broken |-> broken]

Truthy(x) ==
    CASE x.t = "none" -> FALSE
      [] x.t = "bool" -> x.v
      [] x.t = "num" -> x.v # 0
      [] x.t = "stream" -> TRUE
      [] OTHER -> Len(x.v) > 0

HasKey(items, k) == \E n \in 1..Len(items) : items[n][1] = k

Lookup(items, k) == items[CHOOSE n \in 1..Len(items) : items[n][1] = k][2]

\* dict.get(k): the value, or None
Get(d, k) == IF HasKey(d.v, k) THEN Lookup(d.v, k) ELSE None

\* d[k] = x: an existing key keeps its place
SetItem(items, k, x) ==
    IF HasKey(items, k)
    THEN [n \in 1..Len(items) |-> IF items[n][1] = k THEN <<k, x>> ELSE items[n]]
    ELSE Append(items, <<k, x>>)

\* x == 200 between Python values (True == 200 is False)
EqualsInt(x, n) == x.t = "num" /\ x.v = n

----------------------------------------------------------------------------
(* bytes.decode('utf-8') *)

Utf8Lead == {"xC3"}
Utf8Continuation == {"xA9"}
Utf8Invalid == {"xFF"}
NonAscii == Utf8Lead \cup Utf8Continuation \cup Utf8Invalid

RECURSIVE DecodeFrom(_, _, _)
DecodeFrom(bytes, i, acc) ==
    IF i > Len(bytes) THEN [ok |-> TRUE, text |-> acc]
    ELSE IF bytes[i] \notin NonAscii THEN DecodeFrom(bytes, i + 1, Append(acc, bytes[i]))
    ELSE IF /\ bytes[i] \in Utf8Lead
            /\ i + 1 <= Len(bytes)
            /\ bytes[i + 1] \in Utf8Continuation
         THEN DecodeFrom(bytes, i + 2, Append(acc, "e_acute"))
    ELSE [ok |-> FALSE, text |-> <<>>]

decode_utf8(bytes) == DecodeFrom(bytes, 1, <<>>)

----------------------------------------------------------------------------
(* json.loads on a str *)

Digits == {"0", "1", "2", "4"}

DigitVal(c) == CASE c = "0" -> 0 [] c = "1" -> 1 [] c = "2" -> 2 [] c = "4" -> 4

Fail(i) == [ok |-> FALSE, val |-> None, pos |-> i]
Done(x, i) == [ok |-> TRUE, val |-> x, pos |-> i]

RECURSIVE SkipWs(_, _)
SkipWs(s, i) == IF i <= Len(s) /\ s[i] = " " THEN SkipWs(s, i + 1) ELSE i

RECURSIVE ScanDigits(_, _, _)
ScanDigits(s, i, n) ==
    IF i <= Len(s) /\ s[i] \in Digits
    THEN ScanDigits(s, i + 1, n * 10 + DigitVal(s[i]))
    ELSE Done(Num(n), i)

\* NUMBER_RE: 0, or a nonzero digit and more digits
ScanNumber(s, i) == IF s[i] = "0" THEN Done(Num(0), i + 1) ELSE ScanDigits(s, i, 0)

\* i is just after the opening quote
RECURSIVE ScanString(_, _, _)
ScanString(s, i, acc) ==
    IF i > Len(s) THEN Fail(i)
    ELSE IF s[i] = "\"" THEN Done(Str(acc), i + 1)
    ELSE ScanString(s, i + 1, Append(acc, s[i]))

RECURSIVE ParseValue(_, _)
RECURSIVE ParseElements(_, _, _)
RECURSIVE ParseMembers(_, _, _)

\* after a value: "]" ends the array, "," asks for another value
ParseElements(s, i, acc) ==
    LET r == ParseValue(s, i)
        j == SkipWs(s, r.pos)
    IN  IF ~r.ok \/ j > Len(s) THEN Fail(i)
        ELSE IF s[j] = "]" THEN Done(Arr(Append(acc, r.val)), j + 1)
        ELSE IF s[j] = "," THEN ParseElements(s, SkipWs(s, j + 1), Append(acc, r.val))
        ELSE Fail(j)

\* i is just after "["
ParseArray(s, i) ==
    LET j == SkipWs(s, i)
    IN  IF j <= Len(s) /\ s[j] = "]" THEN Done(Arr(<<>>), j + 1)
        ELSE ParseElements(s, j, <<>>)

\* i is at the opening quote of a key; a later duplicate key wins
ParseMembers(s, i, acc) ==
    LET k == ScanString(s, i + 1, <<>>)
        c == SkipWs(s, k.pos)
        r == ParseValue(s, SkipWs(s, c + 1))
        j == SkipWs(s, r.pos)
        n == SkipWs(s, j + 1)
    IN  IF ~k.ok \/ c > Len(s) THEN Fail(i)
        ELSE IF s[c] # ":" THEN Fail(c)
        ELSE IF ~r.ok \/ j > Len(s) THEN Fail(c)
        ELSE IF s[j] = "}" THEN Done(Obj(SetItem(acc, k.val.v, r.val)), j + 1)
        ELSE IF s[j] # "," THEN Fail(j)
        ELSE IF n > Len(s) \/ s[n] # "\"" THEN Fail(n)
        ELSE ParseMembers(s, n, SetItem(acc, k.val.v, r.val))

\* i is just after "{"
ParseObject(s, i) ==
    LET j == SkipWs(s, i)
    IN  IF j > Len(s) THEN Fail(j)
        ELSE IF s[j] = "}" THEN Done(Obj(<<>>), j + 1)
        ELSE IF s[j] # "\"" THEN Fail(j)
        ELSE ParseMembers(s, j, <<>>)

\* scan_once
ParseValue(s, i) ==
    IF i > Len(s) THEN Fail(i)
    ELSE CASE s[i] = "\"" -> ScanString(s, i + 1, <<>>)
           [] s[i] = "{" -> ParseObject(s, i + 1)
           [] s[i] = "[" -> ParseArray(s, i + 1)
           [] s[i] = "null" -> Done(None, i + 1)
           [] s[i] = "true" -> Done(Bool(TRUE), i + 1)
           [] s[i] = "false" -> Done(Bool(FALSE), i + 1)
           [] s[i] \in Digits -> ScanNumber(s, i)
           [] OTHER -> Fail(i)

\* JSONDecoder.decode: one value, whitespace around it, nothing after it
json_loads(text) ==
    LET r == ParseValue(text, SkipWs(text, 1))
    IN  IF r.ok /\ SkipWs(text, r.pos) = Len(text) + 1
        THEN [ok |-> TRUE, val |-> r.val]
        ELSE [ok |-> FALSE, val |-> None]

----------------------------------------------------------------------------
(* invoke_get_nhl_seasons *)

K(name) == <<name>>

\* the dict boto3 returns: 'FunctionError' is there only when the remote code faulted
InvokeResponse(functionError, stream) ==
    Obj(<< <<K("StatusCode"), Num(200)>> >>
        \o (IF functionError THEN << <<K("FunctionError"), Str(<<"Unhandled">>)>> >> ELSE <<>>)
        \o << <<K("Payload"), stream>> >>)

InvocationFailure(code, message) ==
    Obj(<< <<K("InvocationError"), Bool(TRUE)>>,
           <<K("errorCode"), Str(<<code>>)>>,
           <<K("errorMessage"), Str(<<message>>)>> >>)

\* outcome is what lambda_client.invoke did: returned a response, raised an
\* instance of the name ClientError that line 8 binds (taken from
\* requests.exceptions, not from botocore), or raised anything else. Both except
\* clauses return the same shape; only errorCode tells them apart.
invoke_get_nhl_seasons(outcome) ==
    CASE outcome.kind = "response" -> InvokeResponse(outcome.functionError, outcome.stream)
      [] outcome.kind = "ClientError" -> InvocationFailure(outcome.code, outcome.message)
      [] OTHER -> InvocationFailure("UnexpectedError", outcome.message)

----------------------------------------------------------------------------
(* parse_nhl_seasons_response: the value returned and the reads of the stream *)

Unwrapped(x, n) == [val |-> x, reads |-> n]

HasReadablePayload(lr) ==
    HasKey(lr.v, K("Payload")) /\ Get(lr, K("Payload")).t = "stream"

\* as ReadPayload, but text that is not JSON is handed on as a str
ReadPayloadKeepsRaw(lr) ==
    LET stream == Get(lr, K("Payload"))
        decoded == decode_utf8(stream.v)
        parsed == json_loads(decoded.text)
    IN  IF stream.broken \/ ~decoded.ok THEN Unwrapped(None, 1)
        ELSE IF parsed.ok THEN Unwrapped(parsed.val, 1)
        ELSE Unwrapped(Str(decoded.text), 1)

ReadPayload(lr) ==
    LET stream == Get(lr, K("Payload"))
        decoded == decode_utf8(stream.v)
        parsed == json_loads(decoded.text)
    IN  IF stream.broken \/ ~decoded.ok THEN Unwrapped(None, 1)
        ELSE IF HasKey(lr.v, K("FunctionError"))
             THEN (IF parsed.ok THEN Unwrapped(parsed.val, 1) ELSE Unwrapped(None, 1))
        ELSE IF parsed.ok THEN Unwrapped(parsed.val, 1)
        ELSE Unwrapped(None, 1)

\* as parse_nhl_seasons_response, without the InvocationError check
parse_nhl_seasons_responseUnchecked(lr) ==
    IF HasReadablePayload(lr) THEN ReadPayload(lr) ELSE Unwrapped(lr, 0)

parse_nhl_seasons_response(lr) ==
    IF Truthy(Get(lr, K("InvocationError"))) THEN Unwrapped(None, 0)
    ELSE IF HasReadablePayload(lr) THEN ReadPayload(lr)
    ELSE Unwrapped(lr, 0)

----------------------------------------------------------------------------
(* parse_seasons_json: the value returned, or the exception that escapes *)

Return(x) == [raised |-> FALSE, exc |-> "none", val |-> x]
Raise(e) == [raised |-> TRUE, exc |-> e, val |-> None]

IsFaultDescriptor(p) ==
    Truthy(Get(p, K("errorMessage"))) /\ Truthy(Get(p, K("errorType")))

\* "if status_code:" where the code has "if status_code == 200:"
StatusIsOkTruthy(p) == Truthy(Get(p, K("statusCode")))

StatusIsOk(p) == EqualsInt(Get(p, K("statusCode")), 200)

\* as LoadBody, without the second json.loads
LoadBodyUnparsed(body) ==
    IF body.t = "none" THEN Return(Arr(<<>>)) ELSE Return(body)

\* as LoadBody, with a missing body answered by None, as the docstring has it
LoadBodyMissingIsNone(body) ==
    IF body.t # "str" THEN Return(None)
    ELSE IF json_loads(body.v).ok THEN Return(json_loads(body.v).val)
    ELSE Return(None)

\* json.loads(body) inside try: a non-str body is a TypeError, caught too
LoadBody(body) ==
    IF body.t = "none" THEN Return(Arr(<<>>))
    ELSE IF body.t # "str" THEN Return(None)
    ELSE IF json_loads(body.v).ok THEN Return(json_loads(body.v).val)
    ELSE Return(None)

parse_seasons_json(p) ==
    IF p.t = "none" THEN Return(None)
    ELSE IF p.t # "obj" THEN Raise("AttributeError")
    ELSE IF IsFaultDescriptor(p) THEN Return(None)
    ELSE IF StatusIsOk(p) THEN LoadBody(Get(p, K("body")))
    ELSE Return(None)

----------------------------------------------------------------------------
(* What the remote function and the transport can send *)

MaxBodyLen == 2
MaxPayloadLen == 2
MaxSeasons == 2

Q == "\""

AllTexts(alphabet, n) == UNION {[1..k -> alphabet] : k \in 0..n}

DigitSym(d) == CASE d = 0 -> "0" [] d = 1 -> "1" [] d = 2 -> "2" [] d = 4 -> "4"

RECURSIVE DumpsInt(_)
DumpsInt(n) == IF n < 10 THEN <<DigitSym(n)>> ELSE DumpsInt(n \div 10) \o <<DigitSym(n % 10)>>

RECURSIVE Join(_, _)
Join(texts, sep) ==
    IF Len(texts) = 0 THEN <<>>
    ELSE IF Len(texts) = 1 THEN texts[1]
    ELSE texts[1] \o sep \o Join(Tail(texts), sep)

\* the remote function's json.dumps of a season list, with either separator
DumpsList(list, sep) ==
    <<"[">> \o Join([n \in 1..Len(list) |-> DumpsInt(list[n])], sep) \o <<"]">>

SeasonIds == {1, 12}
SeasonLists == UNION {[1..k -> SeasonIds] : k \in 0..MaxSeasons}
Separators == {<<",">>, <<",", " ">>}

BodyAlphabet == {"[", "]", ",", "1", "null"}
Bodies ==
    AllTexts(BodyAlphabet, MaxBodyLen)
    \cup {DumpsList(l, sep) : l \in SeasonLists, sep \in Separators}

Member(key, valueText) == <<Q, key, Q, ":">> \o valueText
StrText(content) == <<Q>> \o content \o <<Q>>

\* <<>> is a member left out
StatusMembers ==
    {<<>>, Member("statusCode", <<"2", "0", "0">>), Member("statusCode", <<"4", "0", "4">>)}
BodyMembers ==
    {<<>>, Member("body", <<"null">>), Member("body", <<"1">>)}
    \cup {Member("body", StrText(b)) : b \in Bodies}
FaultMembers ==
    { <<>>,
      Member("errorType", StrText(<<"KeyError">>)) \o <<",">>
          \o Member("errorMessage", StrText(<<"seasons">>)),
      Member("errorType", StrText(<<>>)) \o <<",">> \o Member("errorMessage", StrText(<<>>)),
      Member("errorMessage", StrText(<<"seasons">>)) }

DumpsEnvelope(status, body, fault) ==
    <<"{">> \o Join(SelectSeq(<<status, body, fault>>, LAMBDA m : m # <<>>), <<",">>) \o <<"}">>

Envelopes == {DumpsEnvelope(st, b, f) : st \in StatusMembers, b \in BodyMembers, f \in FaultMembers}

PayloadAlphabet == {"{", "}", "[", "]", Q, "1", "null", " "}

OtherTexts ==
    { <<"{", " ", Q, "statusCode", Q, " ", ":", " ", "2", "0", "0", " ", ",", " ",
        Q, "body", Q, ":", " ", Q, " ", "[", "1", " ", ",", "1", "2", "]", Q, " ", "}", " ">>,
      <<"{", Q, "statusCode", Q, ":", "4", "0", "4", ",", Q, "statusCode", Q, ":", "2", "0", "0", ",",
        Q, "body", Q, ":", Q, "[", "1", "]", Q, "}">>,
      <<"{", Q, "statusCode", Q, ":", "2", "0", "0", ",", Q, "body", Q, ":", Q, "[", "1", "]", Q, ",", "}">>,
      <<"{", Q, "statusCode", Q, ":", Q, "2", "0", "0", Q, ",", Q, "body", Q, ":", Q, "[", "1", "]", Q, "}">>,
      <<"{", Q, "statusCode", Q, ":", "2", "0", "0", ",", Q, "body", Q, ":", "[", "1", "]", "}">>,
      <<"{", Q, "statusCode", Q, ":", "2", "0", "0", ",", Q, "body", Q, ":", Q, "{", "}", Q, "}">>,
      <<"{", Q, "statusCode", Q, ":", "2", "0", "0", ",", Q, "e_acute", Q, ":", "true", ",",
        Q, "body", Q, ":", Q, "[", "1", "2", "]", Q, "}">>,
      <<"true">>, <<"2", "0", "0">>, <<Q, "body", Q>> }

PayloadTexts == Envelopes \cup AllTexts(PayloadAlphabet, MaxPayloadLen) \cup OtherTexts

RECURSIVE Utf8Encode(_)
Utf8Encode(text) ==
    IF Len(text) = 0 THEN <<>>
    ELSE (IF Head(text) = "e_acute" THEN <<"xC3", "xA9">> ELSE <<Head(text)>>)
         \o Utf8Encode(Tail(text))

ValidPayloads == {Utf8Encode(t) : t \in PayloadTexts}

\* byte sequences that are not UTF-8
InvalidPayloads ==
    { <<"xFF">>, <<"xC3">>, <<"xA9">>, <<"[", "]", "xFF">>, <<"xC3", "1">>,
      <<"{", Q, "statusCode", Q, ":", "2", "0", "0", ",", Q, "body", Q, ":", Q, "[", "1", "]", "xFF", Q, "}">>,
      <<"{", Q, "statusCode", Q, ":", "2", "0", "0", ",", Q, "xC3", Q, ":", "1", "}">> }

ErrorCodes == {"AccessDeniedException", "ResourceNotFoundException", "TooManyRequestsException"}

----------------------------------------------------------------------------
(* lambda_handler *)

positions == <<"skater", "goalie">>

Iterable(x) == x.t \in {"arr", "obj", "str"}

\* what "for season in seasons" walks through: the elements of a list, the keys
\* of a dict, the symbols of a str
Items(x) ==
    CASE x.t = "arr" -> x.v
      [] x.t = "obj" -> [n \in 1..Len(x.v) |-> Str(x.v[n][1])]
      [] OTHER -> [n \in 1..Len(x.v) |-> Str(<<x.v[n]>>)]

\* f"nhl-player-bios/{position}-bios-{season}.json"; the season stands for its text
S3Key(position, season) == <<"nhl-player-bios/", position, "-bios-", season, ".json">>

SeasonAt(k) == Items(seasons)[((k - 1) \div Len(positions)) + 1]
PositionAt(k) == positions[((k - 1) % Len(positions)) + 1]
TotalSteps == Len(Items(seasons)) * Len(positions)

Init ==
    /\ pc = "start"
    /\ lambda_response = None
    /\ reads = 0
    /\ parsed_lambda_output = None
    /\ seasons = None
    /\ exc = "none"
    /\ step = 0
    /\ fetchLog = <<>>
    /\ putLog = <<>>
    /\ uploadErrors = 0
    /\ results = <<>>
    /\ response = None

Invoked(outcome) ==
    /\ pc = "start"
    /\ lambda_response' = invoke_get_nhl_seasons(outcome)
    /\ pc' = "invoked"
    /\ UNCHANGED <<reads, parsed_lambda_output, seasons, exc, step, fetchLog, putLog,
                   uploadErrors, results, response>>

\* line 228, the call returns a response
InvokeOk ==
    \E fe \in BOOLEAN, bytes \in ValidPayloads \cup InvalidPayloads :
        Invoked([kind |-> "response", functionError |-> fe, stream |-> Stream(bytes, FALSE)])

\* line 228, the call returns a response whose stream cannot be read
InvokeBrokenStream ==
    \E fe \in BOOLEAN :
        Invoked([kind |-> "response", functionError |-> fe, stream |-> Stream(<<>>, TRUE)])

\* line 228, the call raises
InvokeFails ==
    \/ \E code \in ErrorCodes :
           Invoked([kind |-> "ClientError", code |-> code, message |-> "denied"])
    \/ Invoked([kind |-> "Exception", message |-> "timed out"])

\* line 229
Unwrap ==
    /\ pc = "invoked"
    /\ parsed_lambda_output' = parse_nhl_seasons_response(lambda_response).val
    /\ reads' = reads + parse_nhl_seasons_response(lambda_response).reads
    /\ pc' = "unwrapped"
    /\ UNCHANGED <<lambda_response, seasons, exc, step, fetchLog, putLog, uploadErrors,
                   results, response>>

\* line 230
Extract ==
    /\ pc = "unwrapped"
    /\ LET r == parse_seasons_json(parsed_lambda_output)
       IN  /\ seasons' = r.val
           /\ exc' = r.exc
           /\ pc' = IF r.raised THEN "raised" ELSE "extracted"
    /\ UNCHANGED <<lambda_response, reads, parsed_lambda_output, step, fetchLog, putLog,
                   uploadErrors, results, response>>

\* line 234: iter(seasons)
EnterLoop ==
    /\ pc = "extracted"
    /\ IF Iterable(seasons)
       THEN pc' = "loop" /\ exc' = exc
       ELSE pc' = "raised" /\ exc' = "TypeError"
    /\ UNCHANGED <<lambda_response, reads, parsed_lambda_output, seasons, step, fetchLog,
                   putLog, uploadErrors, results, response>>

\* as LoopBody, without "if player_data:"
LoopBodyAlwaysPuts(player_data, put_raises) ==
    /\ pc = "loop"
    /\ step < TotalSteps
    /\ step' = step + 1
    /\ fetchLog' = Append(fetchLog, [season |-> SeasonAt(step + 1),
                                      position |-> PositionAt(step + 1),
                                      has_data |-> player_data = "data"])
    /\ putLog' = Append(putLog, [key |-> S3Key(PositionAt(step + 1), SeasonAt(step + 1)),
                                  step |-> step + 1])
    /\ uploadErrors' = uploadErrors + (IF put_raises THEN 1 ELSE 0)
    /\ results' = IF put_raises THEN <<"Failed to upload">> ELSE <<"Uploaded">>
    /\ UNCHANGED <<pc, lambda_response, reads, parsed_lambda_output, seasons, exc, response>>

\* lines 235-264, one (season, position): player_data is None (fetch_player_bios
\* caught a failure), empty ({} or []) or data; put_object returns or raises.
\* fetchLog keeps whether player_data was truthy, putLog the calls of put_object,
\* uploadErrors how many of them raised (the logger.error of line 260)
LoopBody(player_data, put_raises) ==
    /\ pc = "loop"
    /\ step < TotalSteps
    /\ step' = step + 1
    /\ LET key == S3Key(PositionAt(step + 1), SeasonAt(step + 1))
       IN  /\ fetchLog' = Append(fetchLog, [season |-> SeasonAt(step + 1),
                                             position |-> PositionAt(step + 1),
                                             has_data |-> player_data = "data"])
           /\ IF player_data = "data"
              THEN /\ putLog' = Append(putLog, [key |-> key, step |-> step + 1])
                   /\ uploadErrors' = uploadErrors + (IF put_raises THEN 1 ELSE 0)
                   /\ results' = IF put_raises THEN <<"Failed to upload">> ELSE <<"Uploaded">>
              ELSE /\ putLog' = putLog
                   /\ uploadErrors' = uploadErrors
                   /\ results' = <<"No data">>
    /\ UNCHANGED <<pc, lambda_response, reads, parsed_lambda_output, seasons, exc, response>>

Iterate ==
    \E player_data \in {"None", "empty", "data"}, put_raises \in BOOLEAN :
        LoopBody(player_data, put_raises)

\* lines 270-273: results is bound only inside the loop body
HandlerReturn ==
    /\ pc = "loop"
    /\ step = TotalSteps
    /\ IF step = 0
       THEN pc' = "raised" /\ exc' = "UnboundLocalError" /\ response' = response
       ELSE /\ pc' = "returned"
            /\ exc' = exc
            /\ response' = [statusCode |-> 200, details |-> results]
    /\ UNCHANGED <<lambda_response, reads, parsed_lambda_output, seasons, step, fetchLog,
                   putLog, uploadErrors, results>>

Next ==
    \/ InvokeOk
    \/ InvokeBrokenStream
    \/ InvokeFails
    \/ Unwrap
    \/ Extract
    \/ EnterLoop
    \/ Iterate
    \/ HandlerReturn

Spec == Init /\ [][Next]_vars

----------------------------------------------------------------------------
(* Vocabulary of the properties *)

UnwrapDone == pc \notin {"start", "invoked"}
ResolverDone == pc \notin {"start", "invoked", "unwrapped"}
ResolverRaised == pc = "raised" /\ exc = "AttributeError"
Absent == ~ResolverRaised /\ seasons.t = "none"
Yields(list) == ~ResolverRaised /\ seasons.t = "arr" /\ seasons.v = list

TransportFailed == HasKey(lambda_response.v, K("InvocationError"))
TransportOk == HasKey(lambda_response.v, K("Payload"))
MarkerSet == HasKey(lambda_response.v, K("FunctionError"))
PayloadBytes == Get(lambda_response, K("Payload")).v

Envelope == parsed_lambda_output
IsObject == Envelope.t = "obj"
HasFaultFields == HasKey(Envelope.v, K("errorMessage")) /\ HasKey(Envelope.v, K("errorType"))
NoFaultFields == ~HasKey(Envelope.v, K("errorMessage")) /\ ~HasKey(Envelope.v, K("errorType"))
Status200 == HasKey(Envelope.v, K("statusCode")) /\ Lookup(Envelope.v, K("statusCode")) = Num(200)
BodyMissing == ~HasKey(Envelope.v, K("body")) \/ Lookup(Envelope.v, K("body")).t = "none"
BodyIs(text) ==
    /\ HasKey(Envelope.v, K("body"))
    /\ Lookup(Envelope.v, K("body")).t = "str"
    /\ Lookup(Envelope.v, K("body")).v = text

NumList(list) == [n \in 1..Len(list) |-> Num(list[n])]
Status200Member == Member("statusCode", <<"2", "0", "0">>)
Status404Member == Member("statusCode", <<"4", "0", "4">>)
ListBody(list, sep) == Member("body", StrText(DumpsList(list, sep)))

Count(text, sym) == Len(SelectSeq(text, LAMBDA c : c = sym))
StripWs(text) == SelectSeq(text, LAMBDA c : c # " ")

\* text that cannot be JSON whatever else it holds: nothing but whitespace, a
\* quote left open, or, with no string in it, brackets that do not pair up
KnownMalformed(text) ==
    \/ StripWs(text) = <<>>
    \/ Count(text, Q) % 2 = 1
    \/ /\ Count(text, Q) = 0
       /\ \/ Count(text, "[") # Count(text, "]")
          \/ Count(text, "{") # Count(text, "}")

----------------------------------------------------------------------------
\* C1: whatever the invocation did and whatever the payload holds, the resolver
\* (invoke, then unwrap, then extract) ends with a season list or with absent,
\* and no exception leaves it.
C1_ResolverTotal ==
    ResolverDone => ~ResolverRaised /\ seasons.t \in {"none", "arr"}

\* C2: an envelope that holds both an errorMessage and an errorType field,
\* whatever their values, makes parse_seasons_json return absent, even with
\* statusCode 200 and a valid body beside them.
C2_FaultFieldsGiveAbsent ==
    (ResolverDone /\ IsObject /\ HasFaultFields) => Absent

\* C3: when the transport succeeded and the response carries the FunctionError
\* marker, what the resolver yields is absent and never a season list, whatever
\* the payload decodes to (C1 is about the runs in which it yields nothing).
C3_MarkerGivesAbsent ==
    (ResolverDone /\ ~ResolverRaised /\ TransportOk /\ MarkerSet) => seasons.t = "none"

\* C4: a season list comes only from statusCode 200. An envelope whose
\* statusCode is missing or is not 200 gives absent whatever its body, and a
\* payload that encodes such an envelope makes the resolver yield absent.
NotOkEnvelopes ==
    {Utf8Encode(DumpsEnvelope(st, b, f)) :
        st \in StatusMembers \ {Status200Member}, b \in BodyMembers, f \in FaultMembers}

C4_OnlyStatus200 ==
    /\ (ResolverDone /\ IsObject /\ ~Status200) => Absent
    /\ (ResolverDone /\ TransportOk /\ PayloadBytes \in NotOkEnvelopes) => Absent
    /\ (ResolverDone /\ ~ResolverRaised /\ seasons.t # "none") => (IsObject /\ Status200)

C4_Witness ==
    /\ pc = "extracted"
    /\ TransportOk /\ ~MarkerSet
    /\ PayloadBytes = Utf8Encode(DumpsEnvelope(Status404Member, ListBody(<<1, 12>>, <<",">>), <<>>))
    /\ IsObject /\ ~Status200 /\ BodyIs(<<"[", "1", ",", "1", "2", "]">>)
    /\ Absent

\* C5: an envelope without fault fields, with statusCode 200 and a body that is
\* the JSON text of a list of season ids, gives exactly that list, in order;
\* a payload that encodes such an envelope makes the resolver yield it.
C5_ListRoundTrip ==
    \A list \in SeasonLists, sep \in Separators :
        /\ (ResolverDone /\ IsObject /\ NoFaultFields /\ Status200
                /\ BodyIs(DumpsList(list, sep)))
               => Yields(NumList(list))
        /\ (ResolverDone /\ TransportOk
                /\ PayloadBytes = Utf8Encode(DumpsEnvelope(Status200Member, ListBody(list, sep), <<>>)))
               => Yields(NumList(list))

C5_Witness ==
    /\ pc = "returned"
    /\ TransportOk /\ ~MarkerSet
    /\ PayloadBytes = Utf8Encode(DumpsEnvelope(Status200Member, ListBody(<<12, 1>>, <<",", " ">>), <<>>))
    /\ Yields(<<Num(12), Num(1)>>)

C7_AbsentIsTerminal ==
    /\ (UnwrapDone /\ TransportFailed) => (Envelope.t = "none" /\ reads = 0)
    /\ (ResolverDone /\ Envelope.t = "none") => Absent

C7_Witness ==
    /\ pc = "extracted"
    /\ TransportFailed
    /\ Get(lambda_response, K("errorCode")) = Str(<<"AccessDeniedException">>)
    /\ Envelope.t = "none" /\ reads = 0
    /\ Absent

\* C8: a successful transport result whose payload bytes are not UTF-8, or whose
\* text is not JSON, unwraps to absent, with the FunctionError marker and
\* without it; the payload stream is read exactly once.
C8_UndecodableGivesAbsent ==
    /\ (UnwrapDone /\ TransportOk
            /\ (PayloadBytes \in InvalidPayloads \/ KnownMalformed(PayloadBytes)))
           => Envelope.t = "none"
    /\ (UnwrapDone /\ TransportOk) => reads = 1

C8_Witness ==
    /\ pc = "unwrapped"
    /\ TransportOk /\ MarkerSet
    /\ PayloadBytes = <<"{", Q, "statusCode", Q, ":", "2", "0", "0", ",", Q, "body", Q, ":",
                        Q, "[", "1", "]", "xFF", Q, "}">>
    /\ Envelope.t = "none" /\ reads = 1

\* C9: lambda_handler returns statusCode 200 whether the resolver gave absent,
\* an empty list or a list with seasons in it, and for absent and the empty
\* list it fetches nothing, uploads nothing and does not raise.
HandlerDone == pc \in {"returned", "raised"}

C9_HandlerReturns200 ==
    (HandlerDone /\ ~ResolverRaised /\ seasons.t \in {"none", "arr"})
        => /\ pc = "returned"
           /\ response.statusCode = 200
           /\ (seasons.t = "none" \/ seasons.v = <<>>) => (fetchLog = <<>> /\ putLog = <<>>)

\* C10, as claimed: for a list with seasons in it every (season, position) pair
\* is fetched exactly once, in season order, skater before goalie, and a key
\* receives at most one put, after the fetch for its pair returned data.
C10_EachPairOnce ==
    (pc = "returned" /\ seasons.t = "arr")
        => /\ \A a, b \in 1..Len(fetchLog) :
                  (a < b) => ~(/\ fetchLog[a].season = fetchLog[b].season
                               /\ fetchLog[a].position = fetchLog[b].position)
           /\ \A m, n \in 1..Len(putLog) : (m < n) => putLog[m].key # putLog[n].key

\* C10, amended: the list may name a season more than once. Each place of the
\* list is fetched once for skater and then once for goalie, in list order,
\* whatever earlier fetches and uploads did; each fetch is followed by at most
\* one put, to the key of its pair, and only when it returned data.
C10_EachPlaceOnce ==
    (pc \in {"loop", "returned"} /\ seasons.t = "arr")
        => /\ Len(fetchLog) = step
           /\ step <= 2 * Len(seasons.v)
           /\ (pc = "returned") => (step = 2 * Len(seasons.v))
           /\ \A k \in 1..Len(fetchLog) :
                  /\ fetchLog[k].season = seasons.v[(k + 1) \div 2]
                  /\ fetchLog[k].position = (IF k % 2 = 1 THEN "skater" ELSE "goalie")
           /\ \A n \in 1..Len(putLog) :
                  /\ putLog[n].step \in 1..Len(fetchLog)
                  /\ fetchLog[putLog[n].step].has_data
                  /\ putLog[n].key = <<"nhl-player-bios/", fetchLog[putLog[n].step].position,
                                       "-bios-", fetchLog[putLog[n].step].season, ".json">>
           /\ \A m, n \in 1..Len(putLog) : (m < n) => putLog[m].step < putLog[n].step

C10_Witness ==
    /\ pc = "returned"
    /\ seasons.t = "arr" /\ seasons.v = <<Num(1), Num(1)>>
    /\ Len(fetchLog) = 4
    /\ ~fetchLog[1].has_data
    /\ Len(putLog) = 2
    /\ putLog[1].step = 2
    /\ putLog[2].step = 4 /\ putLog[2].key = putLog[1].key
    /\ uploadErrors = 1 /\ results = <<"Uploaded">>

====
